---- MODULE Spec2Model ----
(***************************************************************************)
(* Model of the workflow engine of src/models.py: WorkflowEngine           *)
(* (construction, execute, evaluate_expression, get_output) and            *)
(* MissionCriticalTask (is_ready, _evaluate_condition).                    *)
(*                                                                         *)
(* Python strings that the code slices and splits are sequences of         *)
(* one-character strings.  Python values are tagged records.               *)
(*                                                                         *)
(* Lines 82-90 of src/models.py carry a rendering artefact: the text       *)
(* between the two "$" of the string literals "${workflow.input." and      *)
(* "${tasks." was turned into a math-inline span with backslash-escaped    *)
(* punctuation.  The model reads these lines with the artefact undone.     *)
(***************************************************************************)
EXTENDS Integers, Sequences, FiniteSets, TLC

VARIABLES
    definition,        \* the workflow_definition handed to __init__
    pc,                \* position of the program
    workflow_data,     \* self.workflow_data
    execution_status,  \* self.execution_status
    tasks,             \* self.tasks (the ids of the created tasks, in dict order)
    task_results,      \* self.task_results
    executable_tasks,  \* local list of execute()
    executed_tasks,    \* local set of execute()
    idx,               \* position of the for loop of line 54 in executable_tasks
    returned,          \* the value execute() returned
    passes,            \* number of iterations of the while loop of line 52 begun
    exec_count,        \* per task: number of calls of task.execute()
    guard_false,       \* tasks whose _evaluate_condition has returned False
    pass_executed,     \* tasks whose execute() was called in the current pass
    eval_expr,         \* the expression handed to evaluate_expression
    eval_result        \* what evaluate_expression returned for eval_expr

vars == <<definition, pc, workflow_data, execution_status, tasks, task_results,
          executable_tasks, executed_tasks, idx, returned, passes, exec_count,
          guard_false, pass_executed, eval_expr, eval_result>>

----------------------------------------------------------------------------
(* Bounds *)

MaxTasks == 3
MaxDepth == 2

----------------------------------------------------------------------------
(* Python values *)

None == [tag |-> "none"]
BoolVal(b) == [tag |-> "bool", b |-> b]
IntVal(n) == [tag |-> "int", n |-> n]
StrVal(s) == [tag |-> "str", s |-> s]
MapVal(m) == [tag |-> "map", m |-> m]

EmptyMap == MapVal(<<>>)

\* bool(value)
Truthy(v) ==
    CASE v.tag = "none" -> FALSE
      [] v.tag = "bool" -> v.b
      [] v.tag = "int"  -> v.n # 0
      [] v.tag = "str"  -> v.s # <<>>
      [] v.tag = "map"  -> DOMAIN v.m # {}

\* dict.get(key)
DictGet(d, key) == IF key \in DOMAIN d.m THEN d.m[key] ELSE None

----------------------------------------------------------------------------
(* Python string operations *)

\* s.startswith(p)
StartsWith(s, p) == Len(s) >= Len(p) /\ SubSeq(s, 1, Len(p)) = p

\* s.endswith(p)
EndsWith(s, p) == Len(s) >= Len(p) /\ SubSeq(s, Len(s) - Len(p) + 1, Len(s)) = p

\* s[a:-b] for a >= 0, b > 0
Slice(s, a, b) ==
    IF a + 1 > Len(s) - b THEN <<>> ELSE SubSeq(s, a + 1, Len(s) - b)

\* s.split('.')
RECURSIVE Split(_)
Split(s) ==
    IF \A i \in 1..Len(s) : s[i] # "."
    THEN <<s>>
    ELSE LET i == CHOOSE j \in 1..Len(s) :
                      s[j] = "." /\ \A k \in 1..(j-1) : s[k] # "."
         IN  <<SubSeq(s, 1, i - 1)>> \o Split(SubSeq(s, i + 1, Len(s)))

\* '.'.join(parts)
RECURSIVE Join(_)
Join(parts) ==
    IF parts = <<>> THEN <<>>
    ELSE IF Len(parts) = 1 THEN parts[1]
    ELSE parts[1] \o <<".">> \o Join(Tail(parts))

WorkflowInputPrefix ==
    <<"$", "{", "w", "o", "r", "k", "f", "l", "o", "w", ".",
      "i", "n", "p", "u", "t", ".">>
TasksPrefix == <<"$", "{", "t", "a", "s", "k", "s", ".">>
OutputSuffix == <<".", "o", "u", "t", "p", "u", "t">>

\* the keys of the dictionaries of the model
KeyFlag == <<"f", "l", "a", "g">>
KeyEmpty == <<>>
KeyStdout == <<"s", "t", "d", "o", "u", "t">>
KeyExitCode == <<"e", "x", "i", "t", "_", "c", "o", "d", "e">>
KeyWorkflow == <<"w", "o", "r", "k", "f", "l", "o", "w">>
KeyInput == <<"i", "n", "p", "u", "t">>

\* the id of the i-th task of the definition
Digits == <<"1", "2", "3", "4", "5", "6", "7", "8", "9">>
TaskName(i) == <<"T", Digits[i]>>

\* the reference to the value at a dotted path of the workflow input
InputRef(path) == WorkflowInputPrefix \o Join(path) \o <<"}">>

\* the reference to the field key of the output of task i
TaskRef(i, key) == TasksPrefix \o TaskName(i) \o <<".">> \o key \o OutputSuffix

----------------------------------------------------------------------------
(* TaskResult and the task statuses *)

PENDING == "pending"
RUNNING == "running"
COMPLETED == "completed"
FAILED == "failed"
SKIPPED == "skipped"

TaskStatus == {PENDING, RUNNING, COMPLETED, FAILED, SKIPPED}

\* TaskResult(status, output, error); output and error default to None
TaskResult(status, output, error) ==
    [status |-> status, output |-> output, error |-> error]

\* what a task's execute() can return: the command succeeded or it failed
ExecuteOutcomes ==
    { TaskResult(COMPLETED,
                 MapVal([k \in {KeyStdout, KeyExitCode} |->
                            IF k = KeyStdout THEN StrVal(<<"o", "k">>)
                                             ELSE IntVal(0)]),
                 None),
      TaskResult(FAILED, None, StrVal(<<"e", "x", "i", "t", " ", "1">>)) }

----------------------------------------------------------------------------
(* WorkflowEngine.get_task_output and WorkflowEngine.evaluate_expression *)

\* d.get(key, {})
DictGetOrEmpty(d, key) == IF key \in DOMAIN d.m THEN d.m[key] ELSE EmptyMap

get_task_output(task_id, results) ==
    LET ids == {i \in DOMAIN results : TaskName(i) = task_id}
    IN  IF ids = {} THEN None ELSE results[CHOOSE i \in ids : TRUE].output

\* the for loop of lines 85-89; raised: current.get failed because current
\* is no dictionary
RECURSIVE WalkPath(_, _)
WalkPath(current, path) ==
    IF path = <<>> THEN [raised |-> FALSE, val |-> current]
    ELSE IF current.tag # "map" THEN [raised |-> TRUE, val |-> None]
    ELSE LET nxt == DictGet(current, Head(path))
         IN  IF nxt = None THEN [raised |-> FALSE, val |-> None]
             ELSE WalkPath(nxt, Tail(path))

\* the body of the try block with expression[7:-7] in line 91
EvaluateBody_slice_7(expression, wd, results) ==
    IF StartsWith(expression, WorkflowInputPrefix)
    THEN LET path == Split(Slice(expression, 16, 1))
             current == DictGetOrEmpty(DictGetOrEmpty(wd, KeyWorkflow), KeyInput)
         IN  WalkPath(current, path)
    ELSE IF StartsWith(expression, TasksPrefix) /\ EndsWith(expression, OutputSuffix)
    THEN LET parts == Split(Slice(expression, 7, 7))
             task_id == parts[1]
             task_output == get_task_output(task_id, results)
         IN  [raised |-> FALSE,
              val |-> IF Truthy(task_output) /\ Len(parts) > 1
                      THEN DictGet(task_output, parts[2])
                      ELSE None]
    ELSE [raised |-> FALSE, val |-> StrVal(expression)]

\* the body of the try block of evaluate_expression
EvaluateBody(expression, wd, results) ==
    IF StartsWith(expression, WorkflowInputPrefix)
    THEN LET path == Split(Slice(expression, 16, 1))
             current == DictGetOrEmpty(DictGetOrEmpty(wd, KeyWorkflow), KeyInput)
         IN  WalkPath(current, path)
    ELSE IF StartsWith(expression, TasksPrefix) /\ EndsWith(expression, OutputSuffix)
    THEN LET parts == Split(Slice(expression, 8, 7))
             task_id == parts[1]
             task_output == get_task_output(task_id, results)
         IN  [raised |-> FALSE,
              val |-> IF Truthy(task_output) /\ Len(parts) > 1
                      THEN DictGet(task_output, parts[2])
                      ELSE None]
    ELSE [raised |-> FALSE, val |-> StrVal(expression)]

\* evaluate_expression: val is the value returned; raised tells whether an
\* exception left the method; logged whether logging.error was called
evaluate_expression(expression, wd, results) ==
    LET body == EvaluateBody(expression, wd, results)
    IN  IF body.raised
        THEN [val |-> None, raised |-> FALSE, logged |-> TRUE]
        ELSE [val |-> body.val, raised |-> FALSE, logged |-> FALSE]

----------------------------------------------------------------------------
(* Workflow definitions and workflow inputs *)

\* the ids of s in increasing order: the iteration order of the dict
RECURSIVE InOrder(_)
InOrder(s) ==
    IF s = {} THEN <<>>
    ELSE LET m == CHOOSE x \in s : \A y \in s : x <= y
         IN  <<m>> \o InOrder(s \ {m})

\* the ids reached from the ids of s along dep
RECURSIVE ReachedFrom(_, _)
ReachedFrom(s, dep) ==
    LET more == s \cup UNION {dep[u] : u \in s \cap DOMAIN dep}
    IN  IF more = s THEN s ELSE ReachedFrom(more, dep)

HasCycle(dep) == \E t \in DOMAIN dep : t \in ReachedFrom(dep[t], dep)

HasUnknownId(dep) == \E t \in DOMAIN dep : ~(dep[t] \subseteq DOMAIN dep)

\* every acyclic depends_on relation over the tasks 1..n
AcyclicDependsOn(n) ==
    {dep \in [1..n -> SUBSET (1..n)] :
        (\A t \in 1..n : t \notin dep[t]) /\ ~HasCycle(dep)}

ConditionExpressions(n) ==
    {InputRef(<<KeyFlag>>)} \cup {TaskRef(j, KeyStdout) : j \in 1..n}

\* condition of n tasks: None, or an expression string for one of the tasks
ConditionChoices(n) ==
    {[t \in 1..n |-> None]}
    \cup {[t \in 1..n |-> IF t = guarded THEN StrVal(e) ELSE None] :
             guarded \in 1..n, e \in ConditionExpressions(n)}

KeyOut == <<"o", "u", "t">>

OutputSchemas ==
    { <<>>,
      [k \in {KeyOut, KeyFlag} |->
          IF k = KeyOut THEN TaskRef(1, KeyStdout) ELSE InputRef(<<KeyFlag>>)] }

SupportedType(i) == IF i % 2 = 1 THEN "shell" ELSE "rest"

\* the definition of n tasks with the given depends_on, conditions and schema
GraphDefinition(n, dep, cond, schema) ==
    [tasks_is_dict |-> TRUE,
     tasks |-> [t \in 1..n |-> [type |-> SupportedType(t),
                                depends_on |-> dep[t],
                                condition |-> cond[t]]],
     output_schema |-> schema]

\* a definition in which task bad has a type that is neither shell nor rest
TypeDefinition(n, bad) ==
    [tasks_is_dict |-> TRUE,
     tasks |-> [t \in 1..n |-> [type |-> IF t = bad THEN "other"
                                                    ELSE SupportedType(t),
                                depends_on |-> {},
                                condition |-> None]],
     output_schema |-> <<>>]

\* a definition whose "tasks" is no dictionary
NotADictDefinition ==
    [tasks_is_dict |-> FALSE, tasks |-> <<>>, output_schema |-> <<>>]

\* the definitions handed to the engine:
\*  - every acyclic relation over at most MaxTasks tasks, with at most one
\*    guarded task and one of the output schemas;
\*  - an acyclic relation with one more id in one depends_on that closes a
\*    cycle or names no task (the id n + 1);
\*  - a task of an unsupported type;
\*  - "tasks" that is no dictionary
IsDefinition(def) ==
    \/ \E n \in 0..MaxTasks :
          \E dep \in AcyclicDependsOn(n), cond \in ConditionChoices(n),
             schema \in OutputSchemas :
             def = GraphDefinition(n, dep, cond, schema)
    \/ \E n \in 1..MaxTasks :
          \E base \in AcyclicDependsOn(n), t \in 1..n, d \in 1..(n + 1) :
             LET dep == [base EXCEPT ![t] = @ \cup {d}]
             IN  /\ HasCycle(dep) \/ HasUnknownId(dep)
                 /\ def = GraphDefinition(n, dep, [u \in 1..n |-> None], <<>>)
    \/ \E n \in 1..MaxTasks : \E bad \in 1..n : def = TypeDefinition(n, bad)
    \/ def = NotADictDefinition

\* the workflow inputs of a run
RunInputs ==
    { MapVal([k \in {KeyFlag} |-> BoolVal(FALSE)]),
      MapVal([k \in {KeyEmpty} |-> MapVal([j \in {KeyFlag} |-> BoolVal(TRUE)])]) }

----------------------------------------------------------------------------
(* The fields the engine and its tasks read from the definition *)

\* self.tasks_definition
tasks_definition == definition.tasks

\* self.output_schema
output_schema == definition.output_schema

\* MissionCriticalTask.__init__ reading a key no definition has: every task
\* gets the default []
depends_on_wrong_key(t) == {}

\* MissionCriticalTask.__init__: self.depends_on
depends_on(t) == tasks_definition[t].depends_on

\* MissionCriticalTask.__init__: self.condition_expression
condition_expression(t) == tasks_definition[t].condition

----------------------------------------------------------------------------
(* MissionCriticalTask *)

_evaluate_condition(t) ==
    IF condition_expression(t) = None THEN TRUE
    ELSE LET result == evaluate_expression(condition_expression(t).s,
                                           workflow_data, task_results).val
         IN  IF result # None THEN Truthy(result) ELSE FALSE

\* self.engine.task_results.get(dep, TaskResult(TaskStatus.PENDING)).status
ResultStatusOrPending(dep) ==
    IF dep \in DOMAIN task_results THEN task_results[dep].status ELSE PENDING

\* the dependency test of is_ready, without the guard
DependenciesCompleted(t) ==
    \A dep \in depends_on(t) : ResultStatusOrPending(dep) = COMPLETED

is_ready(t) ==
    IF depends_on(t) = {} THEN _evaluate_condition(t)
    ELSE DependenciesCompleted(t) /\ _evaluate_condition(t)

----------------------------------------------------------------------------
(* WorkflowEngine *)

\* status.value as a Python string
StatusValue(status) ==
    CASE status = PENDING   -> <<"p", "e", "n", "d", "i", "n", "g">>
      [] status = RUNNING   -> <<"r", "u", "n", "n", "i", "n", "g">>
      [] status = COMPLETED -> <<"c", "o", "m", "p", "l", "e", "t", "e", "d">>
      [] status = FAILED    -> <<"f", "a", "i", "l", "e", "d">>
      [] status = SKIPPED   -> <<"s", "k", "i", "p", "p", "e", "d">>

KeyStatus == <<"s", "t", "a", "t", "u", "s">>
KeyTaskResults == <<"t", "a", "s", "k", "_", "r", "e", "s", "u", "l", "t", "s">>

\* lines 103-106: the output assembled from output_schema
AssembledOutput(wd, results) ==
    MapVal([key \in DOMAIN output_schema |->
               evaluate_expression(output_schema[key], wd, results).val])

\* line 108: the status of the run and of every task
Diagnostic(status, results) ==
    MapVal([key \in {KeyStatus, KeyTaskResults} |->
               IF key = KeyStatus THEN StrVal(StatusValue(status))
               ELSE MapVal([name \in {TaskName(t) : t \in DOMAIN results} |->
                       LET t == CHOOSE u \in DOMAIN results : TaskName(u) = name
                       IN  StrVal(StatusValue(results[t].status))])])

\* get_output without the test of output_schema in line 102
get_output_any_schema(status, wd, results) ==
    IF status = COMPLETED
    THEN AssembledOutput(wd, results)
    ELSE Diagnostic(status, results)

\* get_output, given the execution status reached
get_output(status, wd, results) ==
    IF status = COMPLETED /\ DOMAIN output_schema # {}
    THEN AssembledOutput(wd, results)
    ELSE Diagnostic(status, results)

\* the tasks _create_tasks creates before it returns or raises: all of them,
\* or those before the first task of an unsupported type
CreatedTasks ==
    LET bad == {t \in DOMAIN tasks_definition :
                    tasks_definition[t].type \notin {"shell", "rest"}}
    IN  IF bad = {} THEN DOMAIN tasks_definition
        ELSE {t \in DOMAIN tasks_definition : \A b \in bad : t < b}

CreateRaises == CreatedTasks # DOMAIN tasks_definition

\* line 64 with the test of line 50 in its place: only tasks without
\* dependencies go into executable_tasks
Executable_roots_only(t, executed) ==
    t \notin executed /\ depends_on(t) = {}

\* line 64: the tasks that go into executable_tasks after a pass
Executable(t, executed) ==
    /\ t \notin executed
    /\ \A dep \in depends_on(t) :
          dep \in executed /\ task_results[dep].status = COMPLETED

MaxPasses == MaxTasks + 2

\* workflow_data as line 44 sets it
WorkflowData(workflow_input) ==
    MapVal([k \in {KeyWorkflow} |-> MapVal([j \in {KeyInput} |-> workflow_input])])

Init ==
    /\ IsDefinition(definition)
    /\ pc = "init"
    /\ workflow_data = EmptyMap
    /\ execution_status = PENDING
    /\ tasks = {}
    /\ task_results = <<>>
    /\ executable_tasks = <<>>
    /\ executed_tasks = {}
    /\ idx = 0
    /\ returned = None
    /\ passes = 0
    /\ exec_count = [t \in 1..MaxTasks |-> 0]
    /\ guard_false = {}
    /\ pass_executed = {}
    /\ eval_expr = <<>>
    /\ eval_result = [val |-> None, raised |-> FALSE, logged |-> FALSE]

\* WorkflowEngine.__init__: _validate_workflow_definition raises ValueError
\* when "tasks" is no dictionary
Construct ==
    /\ pc = "init"
    /\ pc' = IF definition.tasks_is_dict THEN "constructed" ELSE "rejected"
    /\ workflow_data' = EmptyMap
    /\ execution_status' = PENDING
    /\ tasks' = {}
    /\ task_results' = <<>>
    /\ UNCHANGED <<definition, executable_tasks, executed_tasks, idx, returned,
                   passes, exec_count, guard_false, pass_executed, eval_expr, eval_result>>

\* line 46 without its assignment: execution_status stays as __init__ set it
status_not_set == PENDING

\* line 46: self.execution_status = TaskStatus.RUNNING
started_status == RUNNING

\* execute, lines 44-50: up to the first test of the while loop
ExecuteBegin ==
    /\ pc = "constructed"
    /\ \E workflow_input \in RunInputs :
          workflow_data' = WorkflowData(workflow_input)
    /\ tasks' = CreatedTasks
    /\ task_results' = [t \in CreatedTasks |-> TaskResult(PENDING, None, None)]
    /\ IF CreateRaises
       THEN /\ pc' = "raised"
            /\ UNCHANGED <<execution_status, executable_tasks, executed_tasks>>
       ELSE /\ pc' = "while"
            /\ execution_status' = started_status
            /\ executable_tasks' = InOrder({t \in CreatedTasks : depends_on(t) = {}})
            /\ executed_tasks' = {}
    /\ UNCHANGED <<definition, idx, returned, passes, exec_count, guard_false,
                   pass_executed, eval_expr, eval_result>>

\* line 52: the condition of the while loop
LoopCondition ==
    executable_tasks # <<>> \/ Cardinality(executed_tasks) < Cardinality(tasks)

\* line 52 true, line 53: a pass begins
PassBegin ==
    /\ pc = "while"
    /\ LoopCondition
    /\ pc' = "for"
    /\ idx' = 1
    /\ passes' = IF passes < MaxPasses THEN passes + 1 ELSE passes
    /\ pass_executed' = {}
    /\ UNCHANGED <<definition, workflow_data, execution_status, tasks,
                   task_results, executable_tasks, executed_tasks, returned,
                   exec_count, guard_false, eval_expr, eval_result>>

\* line 54 walking through self.tasks.values()
for_all_tasks == InOrder(tasks)

\* line 54: the list the for loop walks through
for_list == executable_tasks

\* lines 54-55 false: the task is in executed_tasks or is not ready
ConsiderNotReady ==
    /\ pc = "for"
    /\ idx <= Len(for_list)
    /\ LET t == for_list[idx]
       IN  /\ ~(t \notin executed_tasks /\ is_ready(t))
           /\ guard_false' =
                 IF /\ t \notin executed_tasks
                    /\ (depends_on(t) = {} \/ DependenciesCompleted(t))
                 THEN guard_false \cup {t} ELSE guard_false
    /\ idx' = idx + 1
    /\ UNCHANGED <<definition, pc, workflow_data, execution_status, tasks,
                   task_results, executable_tasks, executed_tasks, returned,
                   passes, exec_count, pass_executed, eval_expr, eval_result>>

\* lines 56 and 58 building the table anew around the entry of the task
set_result_only(results, t, result) ==
    [u \in DOMAIN results |->
        IF u = t THEN result ELSE TaskResult(PENDING, None, None)]

\* lines 56 and 58: self.task_results[task.task_id] = result
set_result(results, t, result) == [results EXCEPT ![t] = result]

\* line 56 without its assignment: the entry keeps the result of _create_tasks
pending_result == TaskResult(PENDING, None, None)

\* line 56: TaskResult(TaskStatus.RUNNING)
running_result == TaskResult(RUNNING, None, None)

\* lines 55-57: the task is ready, is marked RUNNING and its execute() is called
TaskStart ==
    /\ pc = "for"
    /\ idx <= Len(for_list)
    /\ LET t == for_list[idx]
       IN  /\ t \notin executed_tasks /\ is_ready(t)
           /\ task_results' = set_result(task_results, t, running_result)
           /\ exec_count' = [exec_count EXCEPT ![t] = @ + 1]
           /\ pass_executed' = pass_executed \cup {t}
    /\ pc' = "executing"
    /\ UNCHANGED <<definition, workflow_data, execution_status, tasks,
                   executable_tasks, executed_tasks, idx, returned, passes,
                   guard_false, eval_expr, eval_result>>

\* line 59 left out
executed_unchanged(executed, t) == executed

\* line 59: executed_tasks.add(task.task_id)
executed_add(executed, t) == executed \cup {t}

\* lines 57-60: execute() returns its TaskResult
TaskFinish ==
    /\ pc = "executing"
    /\ LET t == for_list[idx]
       IN  /\ \E result \in ExecuteOutcomes :
                 task_results' = set_result(task_results, t, result)
           /\ executed_tasks' = executed_add(executed_tasks, t)
    /\ idx' = idx + 1
    /\ pc' = "for"
    /\ UNCHANGED <<definition, workflow_data, execution_status, tasks,
                   executable_tasks, returned, passes, exec_count, guard_false,
                   pass_executed, eval_expr, eval_result>>

\* lines 62-67: the for loop is over, executable_tasks is computed anew
Rescan ==
    /\ pc = "for"
    /\ idx > Len(for_list)
    /\ executable_tasks' = InOrder({t \in tasks : Executable(t, executed_tasks)})
    /\ pc' = "while"
    /\ UNCHANGED <<definition, workflow_data, execution_status, tasks,
                   task_results, executed_tasks, idx, returned, passes,
                   exec_count, guard_false, pass_executed, eval_expr, eval_result>>

\* "any" in the place of "all" in line 69
any_completed(results) == \E t \in DOMAIN results : results[t].status = COMPLETED

\* line 69
all_completed(results) == \A t \in DOMAIN results : results[t].status = COMPLETED

\* line 52 false, lines 69-72: the loop is left and execute returns
ExecuteReturn ==
    /\ pc = "while"
    /\ ~LoopCondition
    /\ LET status == IF all_completed(task_results) THEN COMPLETED ELSE FAILED
       IN  /\ execution_status' = status
           /\ returned' = get_output(status, workflow_data, task_results)
    /\ pc' = "returned"
    /\ UNCHANGED <<definition, workflow_data, tasks, task_results,
                   executable_tasks, executed_tasks, idx, passes, exec_count,
                   guard_false, pass_executed, eval_expr, eval_result>>

Next ==
    \/ Construct
    \/ ExecuteBegin
    \/ PassBegin
    \/ ConsiderNotReady
    \/ TaskStart
    \/ TaskFinish
    \/ Rescan
    \/ ExecuteReturn

Spec == Init /\ [][Next]_vars

\* the runs of the definitions with fewer than MaxTasks tasks
SmallInit == Init /\ Cardinality(DOMAIN definition.tasks) < MaxTasks

\* the interpreter keeps running execute: a step that can be taken is taken
FairSpec == SmallInit /\ [][Next]_vars /\ WF_vars(Next)

\* the diamond T1 -> T2, T1 -> T3, {T2, T3} -> T4
DiamondDependsOn ==
    [t \in 1..4 |-> CASE t = 1 -> {}
                      [] t \in {2, 3} -> {1}
                      [] t = 4 -> {2, 3}]

IsDiamond(def) ==
    /\ def.tasks_is_dict
    /\ DOMAIN def.tasks = DOMAIN DiamondDependsOn
    /\ \A t \in DOMAIN def.tasks :
          /\ def.tasks[t].type = SupportedType(t)
          /\ def.tasks[t].depends_on = DiamondDependsOn[t]

DiamondInit ==
    /\ \E cond \in ConditionChoices(4), schema \in OutputSchemas :
          definition = GraphDefinition(4, DiamondDependsOn, cond, schema)
    /\ pc = "init"
    /\ workflow_data = EmptyMap
    /\ execution_status = PENDING
    /\ tasks = {}
    /\ task_results = <<>>
    /\ executable_tasks = <<>>
    /\ executed_tasks = {}
    /\ idx = 0
    /\ returned = None
    /\ passes = 0
    /\ exec_count = [t \in DOMAIN DiamondDependsOn \cup 1..MaxTasks |-> 0]
    /\ guard_false = {}
    /\ pass_executed = {}
    /\ eval_expr = <<>>
    /\ eval_result = [val |-> None, raised |-> FALSE, logged |-> FALSE]

\* the runs of Spec and the runs of the diamond
DiamondSpec == (Init \/ DiamondInit) /\ [][Next]_vars

----------------------------------------------------------------------------
(* evaluate_expression on its own: workflow inputs and input references,
   results tables and task-output references, and other strings *)

EvalKeyA == <<"a">>
EvalKeyB == <<"b">>

EvalScalars == {BoolVal(FALSE)}

\* the keys of the input objects and the segments of the paths
EvalObjectKeys == {KeyEmpty, EvalKeyA}
EvalPathKeys == {EvalKeyA, EvalKeyB}

\* the values nested at most k dictionaries deep
RECURSIVE EvalValues(_)
EvalValues(k) ==
    IF k = 0 THEN EvalScalars
    ELSE EvalScalars
         \cup {MapVal(m) : m \in UNION {[keys -> EvalValues(k - 1)] :
                                           keys \in SUBSET EvalObjectKeys}}

EvalInputs == {v \in EvalValues(MaxDepth) : v.tag = "map"}

EvalPaths == UNION {[1..k -> EvalPathKeys] : k \in 1..MaxDepth}

\* the results a table can hold for a task: the one _create_tasks writes,
\* the one line 56 writes, the ones execute() returns, and a SKIPPED one
EvalTaskResults ==
    {TaskResult(status, None, None) : status \in {PENDING, RUNNING, SKIPPED}}
    \cup ExecuteOutcomes

\* the results tables of the first n tasks
EvalResults == UNION {[1..n -> EvalTaskResults] : n \in 0..MaxTasks}

\* the fields asked of an output: two that execute() stores and one it
\* does not
EvalFields == {KeyStdout, KeyExitCode, EvalKeyA}

\* a reference that names a task and no field
TaskRefNoField(i) == TasksPrefix \o TaskName(i) \o OutputSuffix

\* strings that are neither "${workflow.input."... nor "${tasks."...".output"
EvalLiterals ==
    { <<>>,
      <<"o", "k">>,
      TasksPrefix \o TaskName(1) \o <<".">> \o KeyStdout,
      TaskName(1) \o OutputSuffix,
      Tail(TaskRef(1, KeyStdout)) }

EvalTaskExpressions ==
    {TaskRef(i, key) : i \in 1..MaxTasks, key \in EvalFields}
    \cup {TaskRefNoField(i) : i \in 1..MaxTasks}
    \cup EvalLiterals

\* an input and an input reference, or a results table and another string
EvalCase(wd, results, expression) ==
    \/ /\ \E workflow_input \in EvalInputs : wd = WorkflowData(workflow_input)
       /\ results = <<>>
       /\ \E path \in EvalPaths : expression = InputRef(path)
    \/ /\ wd = WorkflowData(EmptyMap)
       /\ results \in EvalResults
       /\ expression \in EvalTaskExpressions

EvalInit ==
    /\ definition = NotADictDefinition
    /\ pc = "evaluate"
    /\ EvalCase(workflow_data, task_results, eval_expr)
    /\ execution_status = PENDING
    /\ tasks = {}
    /\ executable_tasks = <<>>
    /\ executed_tasks = {}
    /\ idx = 0
    /\ returned = None
    /\ passes = 0
    /\ exec_count = [t \in 1..MaxTasks |-> 0]
    /\ guard_false = {}
    /\ pass_executed = {}
    /\ eval_result = [val |-> None, raised |-> FALSE, logged |-> FALSE]

\* a call of evaluate_expression
Evaluate ==
    /\ pc = "evaluate"
    /\ eval_result' = evaluate_expression(eval_expr, workflow_data, task_results)
    /\ pc' = "evaluated"
    /\ UNCHANGED <<definition, workflow_data, execution_status, tasks,
                   task_results, executable_tasks, executed_tasks, idx, returned,
                   passes, exec_count, guard_false, pass_executed, eval_expr>>

EvalNext == Evaluate

SpecEval == EvalInit /\ [][EvalNext]_vars

----------------------------------------------------------------------------
(* The dependency relation a definition declares *)

NumTasks == Cardinality(DOMAIN definition.tasks)

DeclaredDependencies(t) ==
    IF t \in DOMAIN definition.tasks THEN definition.tasks[t].depends_on ELSE {}

\* the depends_on relation of the definition
DeclaredRelation == [t \in DOMAIN definition.tasks |-> DeclaredDependencies(t)]

\* the tasks t depends on, directly or through other tasks
Ancestors(t) == ReachedFrom(DeclaredDependencies(t), DeclaredRelation)

Cyclic == HasCycle(DeclaredRelation)

Dangling == HasUnknownId(DeclaredRelation)

\* the definitions the specification's build accepts
ValidGraph == definition.tasks_is_dict /\ ~Cyclic /\ ~Dangling /\ ~CreateRaises

StatusOf(t) == IF t \in DOMAIN task_results THEN task_results[t].status ELSE PENDING

----------------------------------------------------------------------------
(* C1: for every acyclic task graph with N tasks, whatever the task outcomes
   and guard values, execute leaves its scheduling loop after at most N
   passes. *)
C1_LoopEndsWithinNPasses == ValidGraph => passes <= NumTasks

(* C2: a task's execute() is started only when every id of its depends_on has
   a result with status COMPLETED: a task that is RUNNING or has a result has
   all its declared dependencies COMPLETED. *)
C2_StartedOnlyAfterDependenciesCompleted ==
    \A t \in DOMAIN task_results :
        task_results[t].status # PENDING =>
            \A dep \in DeclaredDependencies(t) : StatusOf(dep) = COMPLETED

\* a task with a dependency is RUNNING
C2_Witness ==
    /\ pc = "executing"
    /\ DeclaredDependencies(executable_tasks[idx]) # {}
    /\ task_results[executable_tasks[idx]].status = RUNNING

Terminal(t) == StatusOf(t) \in {COMPLETED, FAILED, SKIPPED}

\* some dependency of t has ended FAILED or SKIPPED
DependencyNotCompleted(t) ==
    \E dep \in DeclaredDependencies(t) : StatusOf(dep) \in {FAILED, SKIPPED}

(* C3: a task one of whose dependencies ends FAILED or SKIPPED is never
   executed, and the run returns with that task SKIPPED. *)
C3_FailedDependencySkipsTask ==
    /\ [](\A t \in tasks : DependencyNotCompleted(t) => exec_count[t] = 0)
    /\ \A t \in 1..MaxTasks :
          (ValidGraph /\ t \in tasks /\ DependencyNotCompleted(t))
              ~> (pc = "returned" /\ StatusOf(t) = SKIPPED)

(* C4: a task whose guard condition has evaluated to a falsy value or to
   None when the task was considered is never executed and gets the status
   SKIPPED. *)
C4_FalseGuardSkipsTask ==
    /\ [](\A t \in guard_false : exec_count[t] = 0)
    /\ \A t \in 1..MaxTasks :
          (ValidGraph /\ t \in guard_false) ~> (StatusOf(t) = SKIPPED)

(* C5: when execute has returned, execution_status is COMPLETED if every task
   of the definition has the status COMPLETED and FAILED otherwise. *)
C5_StatusAtReturn ==
    pc = "returned" =>
        /\ execution_status \in {COMPLETED, FAILED}
        /\ execution_status = COMPLETED <=>
              \A t \in DOMAIN definition.tasks : StatusOf(t) = COMPLETED

\* a run has returned FAILED with one task COMPLETED and another FAILED
C5_Witness ==
    /\ pc = "returned"
    /\ execution_status = FAILED
    /\ \E t, u \in tasks : StatusOf(t) = COMPLETED /\ StatusOf(u) = FAILED

\* neither t nor a task it depends on has failed or carries a guard
Unaffected(u) ==
    \A a \in Ancestors(u) \cup {u} :
        /\ a \in DOMAIN definition.tasks
        /\ StatusOf(a) # FAILED
        /\ definition.tasks[a].condition = None

SomeTaskFailed == \E t \in tasks : StatusOf(t) = FAILED

ReturnedDiagnostic ==
    /\ pc = "returned"
    /\ returned.tag = "map"
    /\ DOMAIN returned.m = {KeyStatus, KeyTaskResults}

(* C6: after a task has FAILED, every task that depends on no failed task and
   has no unsatisfied guard still gets a terminal result, and the run ends
   with execution_status FAILED and the diagnostic mapping returned. *)
C6_FailureDoesNotAbortRun ==
    /\ \A u \in 1..MaxTasks :
          (ValidGraph /\ SomeTaskFailed /\ u \in tasks /\ Unaffected(u))
              ~> (Terminal(u) \/ ~Unaffected(u))
    /\ (ValidGraph /\ SomeTaskFailed)
          ~> (execution_status = FAILED /\ ReturnedDiagnostic)

NothingExecuted == \A t \in 1..MaxTasks : exec_count[t] = 0

(* C7: a definition whose depends_on relation has a cycle is rejected at
   construction: no engine is constructed for it, execution_status stays
   PENDING and no task is executed. *)
C7_CycleRejected ==
    Cyclic => pc \in {"init", "rejected"} /\ execution_status = PENDING
              /\ NothingExecuted

(* C8: a definition in which a depends_on names an id that is no key of the
   task map is rejected before any task is executed; in every run that has
   started every depends_on id is a task of the definition. *)
C8_UnknownDependencyRejected ==
    /\ Dangling => pc \in {"init", "rejected"} /\ NothingExecuted
    /\ pc \in {"while", "for", "executing", "returned"} =>
          \A t \in tasks : DeclaredDependencies(t) \subseteq tasks

\* the returned mapping is the diagnostic of the final state
IsDiagnosticOfRun ==
    /\ returned.tag = "map"
    /\ DOMAIN returned.m = {KeyStatus, KeyTaskResults}
    /\ returned.m[KeyStatus] = StrVal(StatusValue(execution_status))
    /\ returned.m[KeyTaskResults].tag = "map"
    /\ DOMAIN returned.m[KeyTaskResults].m =
          {TaskName(t) : t \in DOMAIN definition.tasks}
    /\ \A t \in DOMAIN definition.tasks :
          returned.m[KeyTaskResults].m[TaskName(t)] =
              StrVal(StatusValue(task_results[t].status))

\* the returned mapping has the keys of output_schema, each with the value of
\* its template in the final state
IsOutputOfRun ==
    /\ returned.tag = "map"
    /\ DOMAIN returned.m = DOMAIN definition.output_schema
    /\ \A key \in DOMAIN definition.output_schema :
          returned.m[key] =
              evaluate_expression(definition.output_schema[key],
                                  workflow_data, task_results).val

(* C9, as claimed: after a run that ended COMPLETED the returned mapping has
   exactly the keys of output_schema, also when output_schema is empty;
   after a run that ended FAILED it is the diagnostic. *)
C9_OutputForEverySchema ==
    pc = "returned" =>
        IF execution_status = COMPLETED THEN IsOutputOfRun ELSE IsDiagnosticOfRun

(* C9, amended: after a run that ended COMPLETED with a non-empty
   output_schema the returned mapping has exactly the keys of output_schema,
   each with the value of its template; after a run that ended FAILED, or
   COMPLETED with an empty output_schema, it is the diagnostic
   {status, task_results} with one status string per task id. *)
C9_OutputOrDiagnostic ==
    pc = "returned" =>
        IF execution_status = COMPLETED /\ DOMAIN definition.output_schema # {}
        THEN IsOutputOfRun
        ELSE IsDiagnosticOfRun

\* a COMPLETED run has returned the stdout of T1 under the key of the schema
C9_Witness ==
    /\ pc = "returned"
    /\ execution_status = COMPLETED
    /\ KeyOut \in DOMAIN definition.output_schema
    /\ returned.m[KeyOut] = StrVal(<<"o", "k">>)

\* the value at a dotted path of an object: None when a segment is missing
\* or an intermediate value is no dictionary
RECURSIVE ValueAtPath(_, _)
ValueAtPath(object, path) ==
    IF path = <<>> THEN object
    ELSE IF object.tag # "map" THEN None
    ELSE IF Head(path) \notin DOMAIN object.m THEN None
    ELSE ValueAtPath(object.m[Head(path)], Tail(path))

(* C10: evaluate_expression of the workflow-input reference to a dotted path
   returns the value stored at the path, None when a segment is missing or an
   intermediate value is no dictionary, and does not raise. *)
C10_InputReferenceResolves ==
    pc = "evaluated" =>
        /\ ~eval_result.raised
        /\ \A path \in EvalPaths :
              eval_expr = InputRef(path) =>
                  eval_result.val =
                      ValueAtPath(workflow_data.m[KeyWorkflow].m[KeyInput], path)

(* C11: the recorded status of a task only moves along PENDING -> RUNNING ->
   {COMPLETED, FAILED, SKIPPED}: in every step a task's status stays as it
   is, goes from PENDING to RUNNING, or goes from RUNNING to a terminal
   status; a terminal status never changes. *)
C11_StatusOnlyAdvances ==
    [][\A t \in DOMAIN task_results \cap DOMAIN task_results' :
          LET old == task_results[t].status
              new == task_results'[t].status
          IN  \/ new = old
              \/ old = PENDING /\ new = RUNNING
              \/ old = RUNNING /\ new \in {COMPLETED, FAILED, SKIPPED}]_vars

\* a later pass is under way while one task is terminal and another PENDING
C11_Witness ==
    /\ pc = "for"
    /\ passes >= 2
    /\ \E t, u \in tasks : Terminal(t) /\ StatusOf(u) = PENDING

AllCompleted == \A t \in DOMAIN definition.tasks : StatusOf(t) = COMPLETED

\* no execute() has failed and no guard has evaluated falsy so far
AllSucceeded == ~SomeTaskFailed /\ guard_false = {}

(* C12: a run of an acyclic graph in which no execute() fails and no guard
   evaluates falsy terminates with every task COMPLETED and execution_status
   COMPLETED: the loop makes at most one pass per task, each pass being one
   walk through a finite list, and at the return every task and the run are
   COMPLETED; in the diamond T4 is started only when T2 and T3 are both
   COMPLETED. *)
C12_AllSucceedRunCompletes ==
    /\ IsDiamond(definition) /\ StatusOf(4) # PENDING
          => StatusOf(2) = COMPLETED /\ StatusOf(3) = COMPLETED
    /\ ValidGraph /\ AllSucceeded =>
          /\ passes <= NumTasks
          /\ pc = "for" => idx \in 1..(Len(executable_tasks) + 1)
          /\ pc = "returned" => AllCompleted /\ execution_status = COMPLETED

\* the run of a diamond has returned COMPLETED, T4 having been executed
C12_Witness ==
    /\ IsDiamond(definition)
    /\ pc = "returned"
    /\ execution_status = COMPLETED
    /\ exec_count[4] = 1
    /\ AllCompleted

(* C13: every pass either gives a PENDING task a terminal status or is the
   last one: when a pass has executed no task, the loop is left and no task
   stays PENDING (the remaining ones having been finalized). *)
C13_EveryPassProgressesOrIsLast ==
    ValidGraph /\ pc = "while" /\ passes >= 1 /\ pass_executed = {} =>
        /\ ~LoopCondition
        /\ \A t \in tasks : StatusOf(t) # PENDING

(* C14: two tasks executed in the same pass do not depend on each other,
   directly or through other tasks: every task a task of the current pass
   depends on was executed in an earlier pass. *)
C14_SamePassTasksIndependent ==
    \A t \in pass_executed :
        \A a \in Ancestors(t) : a \in executed_tasks /\ a \notin pass_executed

\* two tasks with a dependency were executed in one pass after the first
C14_Witness ==
    /\ pc = "for"
    /\ passes >= 2
    /\ \E t, u \in pass_executed :
          t # u /\ DeclaredDependencies(t) # {} /\ DeclaredDependencies(u) # {}

\* a step of the scheduling loop
LoopStep ==
    /\ pc \in {"while", "for", "executing"}
    /\ pc' \in {"while", "for", "executing"}

\* a step of the loop changes nothing of the engine but the entry of the task
\* the for loop is at
FrameOfLoop ==
    LoopStep =>
        /\ workflow_data' = workflow_data
        /\ execution_status' = execution_status
        /\ tasks' = tasks
        /\ DOMAIN task_results' = DOMAIN task_results
        /\ \A u \in DOMAIN task_results :
              task_results'[u] # task_results[u] =>
                  /\ pc \in {"for", "executing"}
                  /\ idx \in 1..Len(executable_tasks)
                  /\ u = executable_tasks[idx]

(* C15, as claimed: a step of the loop changes only the entry of the task
   being executed, and an entry that has been written after its
   initialization to PENDING is never written again. *)
C15_EntryWrittenOnce ==
    [][/\ FrameOfLoop
       /\ \A t \in DOMAIN task_results \cap DOMAIN task_results' :
             task_results[t].status # PENDING =>
                 task_results'[t] = task_results[t]]_vars

(* C15, amended: a step of the loop changes only the entry of the task being
   executed, leaving the other entries, workflow_data and execution_status
   as they are; an entry is written at most twice after its initialization:
   from PENDING to the RUNNING result when the task is started, and from
   that to the result of execute(), after which it never changes. *)
C15_EntryWrittenAtStartAndAtEnd ==
    [][/\ FrameOfLoop
       /\ \A t \in DOMAIN task_results \cap DOMAIN task_results' :
             task_results'[t] # task_results[t] =>
                 \/ /\ task_results[t] = TaskResult(PENDING, None, None)
                    /\ task_results'[t] = TaskResult(RUNNING, None, None)
                 \/ /\ task_results[t] = TaskResult(RUNNING, None, None)
                    /\ task_results'[t] \in ExecuteOutcomes]_vars

\* a task is being executed while the entry of another holds its result
C15_Witness ==
    /\ pc = "executing"
    /\ \E u \in tasks :
          /\ u # executable_tasks[idx]
          /\ task_results[u] \in ExecuteOutcomes

(* C16: execution_status is PENDING until execute is called, RUNNING in
   every state of the scheduling loop, COMPLETED or FAILED only when the
   loop has ended and execute has returned, and from COMPLETED or FAILED it
   never changes again. *)
C16_WorkflowStatusAdvances ==
    /\ [](/\ pc \in {"init", "constructed"} => execution_status = PENDING
          /\ pc \in {"while", "for", "executing"} => execution_status = RUNNING
          /\ execution_status \in {COMPLETED, FAILED} => pc = "returned")
    /\ [][/\ execution_status \in {COMPLETED, FAILED}
              => execution_status' = execution_status
          /\ execution_status' = PENDING => execution_status = PENDING]_vars

\* a pass is under way with one task RUNNING and another still PENDING
C16_Witness ==
    /\ pc = "executing"
    /\ execution_status = RUNNING
    /\ \E t, u \in tasks : StatusOf(t) = RUNNING /\ StatusOf(u) = PENDING

\* the field of the output of task i when the task is COMPLETED and has it
StoredField(i, key) ==
    IF /\ i \in DOMAIN task_results
       /\ task_results[i].status = COMPLETED
       /\ task_results[i].output.tag = "map"
       /\ key \in DOMAIN task_results[i].output.m
    THEN task_results[i].output.m[key]
    ELSE None

(* C17: evaluate_expression of a task-output reference returns the stored
   field of the task's output when the task is COMPLETED and its output has
   the field, and None when the task has another status, the id is unknown
   or the field is missing; a string of neither reference form is returned
   unchanged. *)
C17_TaskReferenceResolves ==
    pc = "evaluated" =>
        /\ \A i \in 1..MaxTasks :
              /\ \A key \in EvalFields :
                    eval_expr = TaskRef(i, key) =>
                        eval_result.val = StoredField(i, key)
              /\ eval_expr = TaskRefNoField(i) => eval_result.val = None
        /\ eval_expr \in EvalLiterals => eval_result.val = StrVal(eval_expr)

\* the reference to the stdout of a COMPLETED T1 has been evaluated while
\* T2 is in the table with another status
C17_Witness ==
    /\ pc = "evaluated"
    /\ eval_expr = TaskRef(1, KeyStdout)
    /\ DOMAIN task_results = {1, 2}
    /\ task_results[1].status = COMPLETED
    /\ task_results[2].status = FAILED
    /\ eval_result.val = StrVal(<<"o", "k">>)

(* C18: in one run execute() of a task is called at most once, and once
   execute() has returned the task's id is in executed_tasks exactly when
   its recorded status is terminal; a task in executed_tasks is not
   RUNNING and is not started again. *)
C18_ExecutedAtMostOnce ==
    /\ [](\A t \in DOMAIN task_results :
             /\ exec_count[t] <= 1
             /\ pc \in {"while", "for", "executing", "returned"} =>
                   (t \in executed_tasks <=> Terminal(t)))
    /\ [][\A t \in executed_tasks :
             exec_count'[t] = exec_count[t] /\ StatusOf(t)' # RUNNING]_vars

\* a later pass is under way: one task was executed once and is terminal,
\* another has not been executed
C18_Witness ==
    /\ pc = "for"
    /\ passes >= 2
    /\ \E t \in executed_tasks : exec_count[t] = 1 /\ Terminal(t)
    /\ \E u \in tasks : u \notin executed_tasks /\ exec_count[u] = 0

\* _evaluate_condition of t has been called on its guard: it returned False,
\* or it returned True and the task was started
GuardEvaluated(t) ==
    /\ t \in DOMAIN definition.tasks
    /\ definition.tasks[t].condition # None
    /\ t \in guard_false \/ exec_count[t] > 0

(* C19: the guard of a task is evaluated only when every declared dependency
   of the task is COMPLETED, and a guard that refers to the stdout of a
   declared dependency gets the output the dependency stored, never None:
   it is not found falsy. *)
C19_GuardSeesCompletedDependencies ==
    \A t \in tasks :
        GuardEvaluated(t) =>
            \A dep \in DeclaredDependencies(t) :
                /\ StatusOf(dep) = COMPLETED
                /\ definition.tasks[t].condition = StrVal(TaskRef(dep, KeyStdout))
                      => t \notin guard_false

\* a task whose guard refers to the stdout of its dependency has been started
C19_Witness ==
    \E t \in tasks :
        /\ exec_count[t] = 1
        /\ \E dep \in DeclaredDependencies(t) :
              definition.tasks[t].condition = StrVal(TaskRef(dep, KeyStdout))

====
